---- MODULE Spec2Model ----
(***************************************************************************)
(* A model of scripts/run_automata.py: the workspace capabilities          *)
(* (save_file, load_file, view_workspace_files), the input gate            *)
(* (validate_input), the run supervisor (add_run_handling) and the         *)
(* memoised loader (load_automaton / load_function / load_and_run).        *)
(*                                                                         *)
(* Strings are sequences of tokens, so that "contains" is a check on the   *)
(* tokens a formatting step really produced.  Paths are sequences of       *)
(* components below the directory "workspace".                             *)
(***************************************************************************)
EXTENDS Integers, Sequences, FiniteSets, TLC

VARIABLES
    files,      \* workspace store: path -> text of the regular file there
    dirs,       \* workspace store: the paths that are directories
    index,      \* resource_metadata: path -> recorded description
    fsLast,     \* the last direct capability call and its outcome
    vIn,        \* validate_input: the inspector's output under test
    vOut,       \* validate_input: its outcome ("none" before the call)
    cache,      \* lru_cache of load_automaton: call key -> construction number
    built,      \* how often load_automaton's body built an Automaton per key
    returned,   \* every (key, instance) pair load_automaton has returned
    held,       \* the instances the top-level caller holds
    stack,      \* the supervised runs in progress, outermost first
    runs,       \* top-level runs started
    last        \* what the last step did

fsVars == <<files, dirs, index, fsLast>>
valVars == <<vIn, vOut>>
loaderVars == <<cache, built, returned>>
runVars == <<cache, built, returned, held, stack, runs, last>>
vars == <<files, dirs, index, fsLast, vIn, vOut,
          cache, built, returned, held, stack, runs, last>>

-----------------------------------------------------------------------------
(* Outcomes of a call: a returned string or a raised exception.            *)

NoEntries == {}

Return(text) == [kind |-> "return", exc |-> "", text |-> text, entries |-> NoEntries]

Raise(exc) == [kind |-> "raise", exc |-> exc, text |-> <<>>, entries |-> NoEntries]

NoCall == [kind |-> "none", exc |-> "", text |-> <<>>, entries |-> NoEntries]

\* s occurs in t as a contiguous run of tokens
Contains(t, s) ==
    \E i \in 0..(Len(t) - Len(s)) : \A j \in 1..Len(s) : t[i + j] = s[j]

\* "/".join(parts) as tokens
RECURSIVE JoinPath(_)
JoinPath(p) ==
    IF Len(p) = 0 THEN <<>>
    ELSE IF Len(p) = 1 THEN <<p[1]>>
    ELSE <<p[1], "/">> \o JoinPath(Tail(p))

Prefix(p, n) == SubSeq(p, 1, n)

Parent(p) == SubSeq(p, 1, Len(p) - 1)

-----------------------------------------------------------------------------
(* The action_input of a capability: a text that json.loads either rejects *)
(* (syntax "invalid") or turns into a JSON value; an object carries the    *)
(* keys named in "keys".  A content is a JSON string or a JSON number.     *)

None == "None"

\* the backquote character of the messages (a token of its own)
BQ == "BACKQUOTE"

Payload(syntax, keys, file_name, content, description) ==
    [syntax |-> syntax, keys |-> keys, file_name |-> file_name,
     content |-> content, description |-> description]

\* json.loads(action_input)
JsonLoads(action_input) ==
    IF action_input.syntax = "invalid" THEN "JSONDecodeError" ELSE "ok"

\* input_json[key]
Subscript(input_json, key) ==
    IF input_json.syntax # "object" THEN "TypeError"
    ELSE IF key \notin input_json.keys THEN "KeyError"
    ELSE "ok"

\* input_json.get("description", "")
GetOrDefault(input_json) ==
    IF "description" \in input_json.keys THEN input_json.description ELSE ""

\* str(content): a JSON number and a JSON string of the same digits agree
Str(content) == <<content.v>>

\* str(path) of Path("workspace") / ...
PathStr(p) == JoinPath(<<"workspace">> \o p)

\* path.relative_to("workspace"), rendered
RelStr(p) == JoinPath(p)

Exists(p) == p \in DOMAIN files \/ p \in dirs

Put(f, k, v) == [x \in (DOMAIN f) \cup {k} |-> IF x = k THEN v ELSE f[x]]

Store(f, d, i) == [files |-> f, dirs |-> d, index |-> i]

Unchanged == Store(files, dirs, index)

\* the handlers of save_file's and load_file's first try block
ParseCaught(exc) == exc \in {"KeyError", "JSONDecodeError"}

SaveParse(action_input) ==
    IF JsonLoads(action_input) # "ok" THEN JsonLoads(action_input)
    ELSE IF Subscript(action_input, "file_name") # "ok"
        THEN Subscript(action_input, "file_name")
    ELSE Subscript(action_input, "content")

SaveCorrective ==
    <<"Could not parse input. Please provide the input in the following format: {file_name: <file_name>, description: <description>, content: <content>}">>

\* path.parent.mkdir(parents=True, exist_ok=True)
Mkdir(d) ==
    IF \E n \in 0..(Len(d) - 1) : Prefix(d, n) \in DOMAIN files THEN "NotADirectoryError"
    ELSE IF d \in DOMAIN files THEN "FileExistsError"
    ELSE "ok"

\* path.write_text(...)
WriteText(path) == IF path \in dirs THEN "IsADirectoryError" ELSE "ok"

SaveFile(action_input, self_name, workspace_name) ==
    LET parse == SaveParse(action_input)
        path == <<workspace_name>> \o action_input.file_name
        made == dirs \cup {Prefix(path, n) : n \in 0..(Len(path) - 1)}
    IN  IF parse # "ok" THEN
            IF ParseCaught(parse)
            THEN [out |-> Return(SaveCorrective), st |-> Unchanged]
            ELSE [out |-> Raise(parse), st |-> Unchanged]
        ELSE IF workspace_name = None THEN [out |-> Raise("TypeError"), st |-> Unchanged]
        ELSE IF Mkdir(Parent(path)) # "ok"
            THEN [out |-> Raise(Mkdir(Parent(path))), st |-> Unchanged]
        ELSE IF WriteText(path) # "ok"
            THEN [out |-> Raise(WriteText(path)), st |-> Store(files, made, index)]
        ELSE [out |-> Return(self_name \o <<": saved file to ", BQ>> \o RelStr(path) \o <<BQ>>),
              st |-> Store(Put(files, path, Str(action_input.content)), made,
                           Put(index, PathStr(path), GetOrDefault(action_input)))]

LoadParse(action_input) ==
    IF JsonLoads(action_input) # "ok" THEN JsonLoads(action_input)
    ELSE Subscript(action_input, "file_name")

LoadCorrective ==
    <<"Could not parse input. Please provide the input in the following format: {file_name: <file_name>}">>

NotFoundText(self_name, file_name) ==
    self_name \o <<": file ", BQ>> \o JoinPath(file_name)
        \o <<BQ, " not found. Please view your workspace to see which files are available, and use the full path given.">>

\* path.read_text(): the error open() reports, or "ok"
ReadText(path) ==
    IF path \in DOMAIN files THEN "ok"
    ELSE IF path \in dirs THEN "IsADirectoryError"
    ELSE IF \E n \in 0..(Len(path) - 1) : Prefix(path, n) \in DOMAIN files
        THEN "NotADirectoryError"
    ELSE "FileNotFoundError"

\* the carriage-return line-feed pair and the line feed, as tokens
CRLF == "one CR LF two"

LF == "one LF two"

\* text mode with newline=None: a line ending read from the file becomes a
\* line feed
UniversalNewlines(tok) == IF tok = CRLF THEN LF ELSE tok

\* path.read_text(encoding="utf-8") on the stored text
Decode(text) == [i \in 1..Len(text) |-> UniversalNewlines(text[i])]

LoadFile(action_input, self_name) ==
    LET parse == LoadParse(action_input)
        path == action_input.file_name
    IN  IF parse # "ok" THEN
            IF ParseCaught(parse) THEN Return(LoadCorrective) ELSE Raise(parse)
        ELSE IF ReadText(path) = "FileNotFoundError"
            THEN Return(NotFoundText(self_name, path))
        ELSE IF ReadText(path) # "ok" THEN Raise(ReadText(path))
        ELSE Return(Decode(files[path]))

\* resource_metadata.get_description(key); what it does for a key that was
\* never set is not fixed by the repository's sources at hand
NoDescription == ""

Described(key) == key \in DOMAIN index

GetDescription(key) == IF Described(key) THEN index[key] ELSE NoDescription

\* path.iterdir(): the immediate children of the directory
IterDir(path) ==
    {p \in (DOMAIN files) \cup dirs : Len(p) = Len(path) + 1 /\ Prefix(p, Len(path)) = path}

Entry(p) == [path |-> RelStr(p), desc |-> GetDescription(PathStr(p))]

Listing(self_name, path) ==
    [kind |-> "return", exc |-> "",
     text |-> self_name \o <<": files in your workspace:\n">>,
     entries |-> {Entry(p) : p \in IterDir(path)}]

\* the outcomes view_workspace_files can have (one, unless an entry has no
\* recorded description)
ViewWorkspaceFiles(self_name, workspace_name) ==
    LET path == <<workspace_name>>
    IN  IF workspace_name = None THEN {Raise("TypeError")}
        ELSE IF path \in DOMAIN files THEN {Raise("NotADirectoryError")}
        ELSE IF path \notin dirs THEN {Raise("FileNotFoundError")}
        ELSE IF \A p \in IterDir(path) : Described(PathStr(p))
            THEN {Listing(self_name, path)}
        ELSE {Listing(self_name, path), Raise("KeyError")}

-----------------------------------------------------------------------------
(* Direct calls of the three workspace capabilities, as a parent's         *)
(* reasoning engine issues them: the inputs are drawn from small sets.     *)

Scopes == {"root", "mid"}

SaveNames == {<<"a">>, <<"a", "x">>}

StrHi == [t |-> "str", v |-> "hi"]

Num5 == [t |-> "num", v |-> "5"]

StrCrLf == [t |-> "str", v |-> CRLF]

AllKeys == {"file_name", "content", "description"}

Malformed(syntax, keys) == Payload(syntax, keys, <<"a">>, StrHi, "greeting")

NonObjects == {"invalid", "array", "number", "string", "null"}

SaveInputs ==
    {Payload("object", AllKeys, f, StrHi, "greeting") : f \in SaveNames}
    \cup {Payload("object", AllKeys, f, Num5, "note") : f \in SaveNames}
    \cup {Payload("object", AllKeys, <<"a">>, StrCrLf, "lines")}
    \cup {Payload("object", {"file_name", "content"}, f, StrHi, "note") : f \in SaveNames}
    \cup {Malformed("object", keys) : keys \in {{"content", "description"}, {"file_name", "description"}, {}}}
    \cup {Malformed(syntax, {}) : syntax \in NonObjects}

LoadNames ==
    {<<w>> \o f : w \in Scopes, f \in SaveNames \cup {<<>>, <<"zz">>, <<"a", "x", "y">>}}
    \cup {<<"a">>}

LoadInputs ==
    {Payload("object", {"file_name"}, f, StrHi, "greeting") : f \in LoadNames}
    \cup {Malformed("object", {"content"})}
    \cup {Malformed(syntax, {}) : syntax \in NonObjects}

SelfNames == {<<"Save File", " (", "function", " ", "0", ")">>}

FsCall(op, ws, input, out) == [op |-> op, ws |-> ws, input |-> input, out |-> out]

FsIdle == FsCall("none", None, Malformed("invalid", {}), NoCall)

ValIdle == [enc |-> "nonstring", shape |-> "dict", keys |-> {}, success |-> "true",
            message |-> <<>>, full_name |-> <<>>]

-----------------------------------------------------------------------------
(* validate_input.  The inspector's output is a text in the strict JSON    *)
(* encoding ("json"), in the relaxed Python-literal encoding ("literal"),  *)
(* a text neither parser accepts ("garbage"), or not a text at all         *)
(* ("nonstring").  A parsed value is a dict with the keys named in "keys"  *)
(* or a list.  success is true, false, null or a non-empty string.         *)

VReturn(valid, text) == [kind |-> "return", exc |-> "", valid |-> valid, text |-> text]

VRaise(exc) == [kind |-> "raise", exc |-> exc, valid |-> FALSE, text |-> <<>>]

VNone == [kind |-> "none", exc |-> "", valid |-> FALSE, text |-> <<>>]

\* bool(output["success"])
Truthy(success) == success \in {"true", "nonempty"}

\* output.replace("true", "True").replace("false", "False"), on the message
ReplaceToken(tok) ==
    IF tok = "true" THEN "True" ELSE IF tok = "false" THEN "False" ELSE tok

ReplaceBooleans(text) == [i \in 1..Len(text) |-> ReplaceToken(text[i])]

\* lines 258-265: the error of the parse, or "ok"
ParseVerdict(output) ==
    IF output.enc = "json" THEN "ok"
    ELSE IF output.enc = "nonstring" THEN "ValueError"   \* TypeError, converted
    ELSE IF output.enc = "literal" THEN "ok"             \* ast.literal_eval
    ELSE "SyntaxError"                                   \* raised in the handler

\* the message of the parsed verdict
ParsedMessage(output) ==
    IF output.enc = "literal" THEN ReplaceBooleans(output.message) ELSE output.message

\* output[key] on the parsed verdict
VerdictItem(output, key) ==
    IF output.shape # "dict" THEN "TypeError"
    ELSE IF key \notin output.keys THEN "KeyError"
    ELSE "ok"

\* the handler of the second try block
FormatCaught(exc) == exc = "KeyError"

FormatError(exc) == IF FormatCaught(exc) THEN VRaise("ValueError") ELSE VRaise(exc)

RejectionText(full_name, message) ==
    full_name \o <<": ">> \o message
        \o <<" Please check the input requirements of this automaton and try again.">>

\* the branch taken once output["success"] was read
Accepts(output) == Truthy(output.success)

ValidateInput(output, full_name) ==
    IF ParseVerdict(output) # "ok" THEN VRaise(ParseVerdict(output))
    ELSE IF VerdictItem(output, "success") # "ok"
        THEN FormatError(VerdictItem(output, "success"))
    ELSE IF Accepts(output) THEN VReturn(TRUE, <<>>)
    ELSE IF VerdictItem(output, "message") # "ok"
        THEN FormatError(VerdictItem(output, "message"))
    ELSE VReturn(Truthy(output.success), RejectionText(full_name, ParsedMessage(output)))

Verdict(enc, shape, keys, success, message, full_name) ==
    [enc |-> enc, shape |-> shape, keys |-> keys, success |-> success,
     message |-> message, full_name |-> full_name]

SuccessValues == {"true", "false", "null", "nonempty"}

Messages == {<<"too", "short">>, <<"not", "true">>, <<>>}

FullNames ==
    {<<"Quiz Creator", " (", "manager", " ", "2", ")">>, <<"Save File", " (", "function", " ", "0", ")">>}

DictVerdicts(n) ==
    {Verdict(enc, "dict", {"success", "message"}, s, m, n) :
        enc \in {"json", "literal"}, s \in SuccessValues, m \in Messages}
    \cup {Verdict(enc, "dict", {"success"}, s, <<>>, n) :
        enc \in {"json", "literal"}, s \in SuccessValues}
    \cup {Verdict(enc, "dict", {"message"}, "true", m, n) :
        enc \in {"json", "literal"}, m \in Messages}
    \cup {Verdict(enc, "dict", {}, "true", <<>>, n) : enc \in {"json", "literal"}}

OtherVerdicts(n) ==
    {Verdict(enc, "list", {}, "true", <<>>, n) : enc \in {"json", "literal"}}
    \cup {Verdict(enc, "dict", {}, "true", <<>>, n) : enc \in {"garbage", "nonstring"}}

Verdicts(n) == DictVerdicts(n) \cup OtherVerdicts(n)

-----------------------------------------------------------------------------
(* The declarations under automata/ and the role templates under          *)
(* src/prompts/roles/: a small hierarchy.  "ghost" is named as a child but *)
(* has no declaration; the role "phantom" has no template; "loop" names    *)
(* itself as its child.                                                    *)

Decl(name, role, rank, engine, validator_engine, sub_automata) ==
    [name |-> name, role |-> role, rank |-> rank, engine |-> engine,
     validator_engine |-> validator_engine, sub_automata |-> sub_automata]

Declared ==
    {"root", "mid", "broken", "norole", "loop",
     "save_file", "load_file", "view_workspace", "think"}

Data(file_name) ==
    CASE file_name = "root" ->
            Decl("Quiz Creator", "manager", 2, "gpt-4", "gpt-3.5-turbo",
                 <<"mid", "save_file", "think">>)
      [] file_name = "mid" ->
            Decl("Quiz Writer", "worker", 1, "gpt-3.5-turbo", "gpt-3.5-turbo",
                 <<"save_file", "view_workspace", "load_file">>)
      [] file_name = "broken" ->
            Decl("Broken", "worker", 1, "gpt-4", None, <<"save_file", "ghost">>)
      [] file_name = "norole" ->
            Decl("No Role", "phantom", 1, "gpt-4", None, <<"save_file">>)
      [] file_name = "loop" ->
            Decl("Loop", "worker", 1, "gpt-4", None, <<"loop">>)
      [] file_name = "save_file" ->
            Decl("Save File", "function", 0, None, "gpt-3.5-turbo", <<>>)
      [] file_name = "load_file" ->
            Decl("Load File", "function", 0, None, None, <<>>)
      [] file_name = "view_workspace" ->
            Decl("View Workspace", "function", 0, None, None, <<>>)
      [] OTHER ->
            Decl("Think", "function", 0, None, None, <<"mid">>)

RoleTemplates == {"manager", "worker"}

RankStr(rank) == <<"0", "1", "2", "3">>[rank + 1]

\* f"{data['name']} ({data['role']} {data['rank']})"
FullName(data) == <<data.name, " (", data.role, " ", RankStr(data.rank), ")">>

\* find_model: the error it raises, or "ok"
FindModel(engine) ==
    IF engine = None THEN "ok"
    ELSE IF engine \in {"gpt-3.5-turbo", "gpt-4"} THEN "ok"
    ELSE "ValueError"

SupportedFunctions ==
    {"llm_assistant", "think", "human", "save_file", "load_file", "view_workspace", "finalize"}

\* load_function: the error it raises, or "ok"
LoadFunction(file_name, data) ==
    IF FindModel(data.engine) # "ok" THEN FindModel(data.engine)
    ELSE IF file_name \notin SupportedFunctions THEN "NotImplementedError"
    ELSE "ok"

\* get_role_info that never misses a template
AnyRole(role) == "ok"

\* get_role_info: the error it raises, or "ok"
GetRoleInfo(role) == IF role \in RoleTemplates THEN "ok" ELSE "FileNotFoundError"

-----------------------------------------------------------------------------
(* load_automaton under functools.lru_cache.  The cache key is the call as *)
(* written: lru_cache does not fill in defaults, and a keyword argument    *)
(* makes another key than the same value passed by position.  dform and    *)
(* sform say how delegator and suppress_errors were passed.                *)

Key(file_name, dform, delegator, sform, suppress_errors) ==
    [file_name |-> file_name, dform |-> dform, delegator |-> delegator,
     sform |-> sform, suppress_errors |-> suppress_errors]

\* an Automaton object: the n-th one built for its key
Inst(key, gen) == [key |-> key, gen |-> gen]

NoKey == Key("", "omitted", None, "omitted", FALSE)

NoInst == Inst(NoKey, 0)

\* a loader that resolves every child as a global singleton
GlobalKey(name, file_name) == Key(name, "kw", None, "kw", TRUE)

\* load_and_run's call: load_automaton(name, delegator=file_name, suppress_errors=True)
ChildKey(name, file_name) == Key(name, "kw", file_name, "kw", TRUE)

Loader(c, b, r) == [cache |-> c, built |-> b, returned |-> r]

LoaderNow == Loader(cache, built, returned)

\* a loader that never finds the call in its cache
NoCacheHit(c, key) == FALSE

\* lru_cache: the call is answered from the cache
CacheHit(c, key) == key \in DOMAIN c

\* the body of load_automaton up to the two returns: the error, or "ok"
Construct(key) ==
    IF key.file_name \notin Declared THEN "FileNotFoundError"
    ELSE LET data == Data(key.file_name)
         IN  IF FindModel(data.validator_engine) # "ok" THEN FindModel(data.validator_engine)
             ELSE IF data.role = "function" THEN LoadFunction(key.file_name, data)
             ELSE FindModel(data.engine)

\* a loader that builds the children at resolution
EagerChildren(data) == data.sub_automata

\* the children the body of load_automaton itself loads: none, they are
\* loaded inside the closure load_and_run
ResolutionChildren(data) == <<>>

\* the children load_and_run loads, in order
LoadAndRunChildren(data) == data.sub_automata

Loaded(L, err, inst, hit) == [L |-> L, err |-> err, inst |-> inst, hit |-> hit]

Note(L, key, inst) ==
    [L EXCEPT !.returned = @ \cup {[key |-> key, inst |-> inst]}]

Memoise(L, key) ==
    LET gen == (IF key \in DOMAIN L.built THEN L.built[key] ELSE 0) + 1
    IN  Loader(Put(L.cache, key, gen), Put(L.built, key, gen),
               L.returned \cup {[key |-> key, inst |-> Inst(key, gen)]})

RECURSIVE LoadAutomaton(_, _)
RECURSIVE LoadAll(_, _, _)

\* [load_automaton(name, delegator=file_name, suppress_errors=True) for name in names]
LoadAll(L, names, file_name) ==
    IF names = <<>> THEN Loaded(L, "ok", NoInst, FALSE)
    ELSE LET r == LoadAutomaton(L, ChildKey(Head(names), file_name))
         IN  IF r.err # "ok" THEN r ELSE LoadAll(r.L, Tail(names), file_name)

\* a call of load_automaton
LoadAutomaton(L, key) ==
    IF CacheHit(L.cache, key)
    THEN Loaded(Note(L, key, Inst(key, L.cache[key])), "ok", Inst(key, L.cache[key]), TRUE)
    ELSE IF Construct(key) # "ok" THEN Loaded(L, Construct(key), NoInst, FALSE)
    ELSE LET kids == LoadAll(L, ResolutionChildren(Data(key.file_name)), key.file_name)
         IN  IF kids.err # "ok" THEN Loaded(kids.L, kids.err, NoInst, FALSE)
             ELSE Loaded(Memoise(kids.L, key), "ok",
                         Inst(key, Memoise(kids.L, key).cache[key]), FALSE)

-----------------------------------------------------------------------------
(* add_run_handling: the supervised run.  A frame is one call of a wrapper *)
(* in progress: at "gate" it has reached the input validator, at "run" the *)
(* wrapped function was called, at "agent" (composites) load_and_run has   *)
(* built the reasoning engine, which is choosing actions.                  *)

Sentinel == <<"Sub-automaton took too long to process and was stopped.">>

KeyboardInterrupt == "KeyboardInterrupt"

HasValidator(inst) == Data(inst.key.file_name).validator_engine # None

\* a loader without the branch for the function role
NoFunctionBranch(inst) == FALSE

\* data["role"] == "function"
IsFunction(inst) == Data(inst.key.file_name).role = "function"

NameOf(inst) == FullName(Data(inst.key.file_name))

\* a wrapper without the KeyboardInterrupt handler
CatchesNothing(exc) == FALSE

\* a wrapper whose handler takes every exception
CatchesAll(exc) == TRUE

\* the handlers of wrapper's try block
Catches(exc) == exc = KeyboardInterrupt

\* a wrapper that ignores the validator's answer
NeverBlocks(valid) == FALSE

\* if not valid: return error
GateBlocks(valid) == ~valid

\* max_iterations=None
MaxIterations(rank) == None

\* max_execution_time=None
MaxExecutionTime(rank) == None

\* the ceilings load_and_run hands to AgentExecutor for a node of this rank
Budget(rank) ==
    [max_iterations |-> MaxIterations(rank), max_execution_time |-> MaxExecutionTime(rank)]

NoBudget == [max_iterations |-> None, max_execution_time |-> None]

Frame(inst, task) ==
    [inst |-> inst, task |-> task, pc |-> "gate", gate |-> "none",
     invoked |-> 0, marks |-> <<>>, iter |-> 0, obs |-> NoCall, budget |-> NoBudget]

\* the engine goes on choosing actions while no ceiling is set or reached
WithinBudget(f) ==
    IF f.budget.max_iterations = None THEN TRUE ELSE f.iter < f.budget.max_iterations

Top == stack[Len(stack)]

Pop(stk) == SubSeq(stk, 1, Len(stk) - 1)

PlainText == Malformed("invalid", {})

NoLast ==
    [ev |-> "none", key |-> NoKey, hit |-> FALSE, inst |-> NoInst, gate |-> "none",
     verdict |-> ValIdle, via |-> "none", out |-> NoCall, invoked |-> 0,
     marks |-> <<>>, depth |-> 0, kiTry |-> -1, task |-> PlainText, emitted |-> <<>>]

\* the record of a supervised run that ended: frame f, at depth `depth`
Ended(f, via, out, depth, kiTry) ==
    [NoLast EXCEPT !.ev = "ended", !.inst = f.inst, !.gate = f.gate, !.via = via,
                   !.out = out, !.invoked = f.invoked, !.marks = f.marks,
                   !.depth = depth, !.kiTry = kiTry, !.task = f.task,
                   !.emitted = IF f.marks # <<>> /\ f.marks[Len(f.marks)] = "end"
                               THEN <<[inst |-> f.inst, mark |-> "end"]>> ELSE <<>>]

\* the caller's frame receives the result of the call it was blocked in
Deliver(stk, out) ==
    IF stk = <<>> THEN stk ELSE [stk EXCEPT ![Len(stk)].obs = out]

\* frame f, above the frames stk, returns out
Finish(stk, f, via, out, kiTry) ==
    [stack |-> Deliver(stk, out), last |-> Ended(f, via, out, Len(stk) + 1, kiTry)]

\* a wrapper that never prints the end marker
NoEndMarker(f) == f

\* print(postprint)
EndMarker(f) == [f EXCEPT !.marks = Append(@, "end")]

\* exc, raised by frame `origin` at depth `depth`, reaches the try block of
\* the top frame of stk (every frame below the active one is blocked inside
\* its wrapped function)
RECURSIVE Unwind(_, _, _, _, _)
Unwind(stk, exc, origin, depth, kiTry) ==
    IF stk = <<>> THEN [stack |-> <<>>, last |-> Ended(origin, "raised", Raise(exc), depth, kiTry)]
    ELSE IF Catches(exc)
        THEN Finish(Pop(stk), EndMarker(stk[Len(stk)]), "interrupted", Return(Sentinel), kiTry)
    ELSE Unwind(Pop(stk), exc, origin, depth, kiTry)

-----------------------------------------------------------------------------
(* The program: a top-level caller that resolves automata and runs them,   *)
(* one call at a time (section 5 of the design: execution is single        *)
(* threaded), with the reasoning engine, the input inspector and the       *)
(* interrupting user as the sources of nondeterminism.                     *)

MaxLoads == 2

MaxRuns == 2

MaxIter == 2

\* the deepest nesting of supervised runs explored
MaxDepth == 3

\* the calls of load_automaton the top-level caller makes; the first is main()'s
TopCalls ==
    {Key("root", "omitted", None, "omitted", FALSE),
     Key("root", "kw", None, "kw", TRUE),
     Key("mid", "kw", "root", "kw", TRUE),
     Key("broken", "omitted", None, "omitted", FALSE),
     Key("norole", "omitted", None, "omitted", FALSE),
     Key("ghost", "omitted", None, "omitted", FALSE),
     Key("loop", "omitted", None, "omitted", FALSE)}

GoodSave == Payload("object", AllKeys, <<"a">>, StrHi, "greeting")

\* the action inputs the reasoning engine (or the top-level caller) passes
Tasks(file_name) ==
    IF file_name = "save_file" THEN {GoodSave, Malformed("array", {})}
    ELSE IF file_name = "load_file"
        THEN {Payload("object", {"file_name"}, <<"mid", "a">>, StrHi, "greeting")}
    ELSE {PlainText}

\* what the input inspector may answer
GateVerdicts(inst) ==
    IF HasValidator(inst)
    THEN {Verdict("json", "dict", {"success", "message"}, "true", <<>>, NameOf(inst)),
          Verdict("literal", "dict", {"success", "message"}, "false", <<"not", "true">>, NameOf(inst)),
          Verdict("json", "dict", {"message"}, "true", <<"too", "short">>, NameOf(inst))}
    ELSE {ValIdle}

\* the wrapped function of a function node (load_function's dispatch): the
\* outcomes it can have on the task, each with the store it leaves
Capability(inst, task) ==
    LET file_name == inst.key.file_name
        self_name == NameOf(inst)
        workspace_name == inst.key.delegator
    IN  IF file_name = "save_file" THEN {SaveFile(task, self_name, workspace_name)}
        ELSE IF file_name = "load_file"
            THEN {[out |-> LoadFile(task, self_name), st |-> Unchanged]}
        ELSE IF file_name = "view_workspace"
            THEN {[out |-> o, st |-> Unchanged] : o \in ViewWorkspaceFiles(self_name, workspace_name)}
        ELSE {[out |-> Raise("TypeError"), st |-> Unchanged]}   \* think: run is a tuple

SetLoader(L) ==
    /\ cache' = L.cache
    /\ built' = L.built
    /\ returned' = L.returned

idleVars == <<fsLast, vIn, vOut>>

InitRun ==
    /\ files = <<>>
    /\ dirs = {<<>>}
    /\ index = <<>>
    /\ fsLast = FsIdle
    /\ vIn = ValIdle
    /\ vOut = VNone
    /\ cache = <<>>
    /\ built = <<>>
    /\ returned = {}
    /\ held = {}
    /\ stack = <<>>
    /\ runs = 0
    /\ last = NoLast

\* main: load_automaton(...)
TopLoad ==
    /\ stack = <<>>
    /\ \E key \in TopCalls :
        LET r == LoadAutomaton(LoaderNow, key)
        IN  /\ (r.err = "ok" /\ r.inst \notin held) => Cardinality(held) < MaxLoads
            /\ SetLoader(r.L)
            /\ held' = IF r.err = "ok" THEN held \cup {r.inst} ELSE held
            /\ last' = [NoLast EXCEPT !.ev = "loaded", !.key = key, !.hit = r.hit,
                                      !.inst = r.inst,
                                      !.out = IF r.err = "ok" THEN Return(<<>>) ELSE Raise(r.err)]
    /\ UNCHANGED <<stack, runs, files, dirs, index, idleVars>>

\* main: automaton.run(task)
TopRun ==
    /\ stack = <<>>
    /\ runs < MaxRuns
    /\ \E inst \in held : \E task \in Tasks(inst.key.file_name) :
        stack' = <<Frame(inst, task)>>
    /\ runs' = runs + 1
    /\ last' = [NoLast EXCEPT !.ev = "called"]
    /\ UNCHANGED <<loaderVars, held, files, dirs, index, idleVars>>

\* wrapper, lines 291-295: the input gate and the start marker
Gate ==
    /\ stack # <<>>
    /\ Top.pc = "gate"
    /\ \E verdict \in GateVerdicts(Top.inst) :
        LET f == Top
            gated == HasValidator(f.inst)
            v == IF gated THEN ValidateInput(verdict, NameOf(f.inst)) ELSE VReturn(TRUE, <<>>)
            g == [f EXCEPT !.gate = IF ~gated THEN "none"
                                    ELSE IF v.valid THEN "accepted" ELSE "rejected"]
            enters == v.kind = "return" /\ ~(gated /\ GateBlocks(v.valid))
            r == IF v.kind = "raise" THEN Unwind(Pop(stack), v.exc, f, Len(stack), -1)
                 ELSE IF ~enters
                    THEN [stack |-> Deliver(Pop(stack), Return(v.text)),
                          last |-> [Ended(g, "rejected", Return(v.text), Len(stack), -1)
                                        EXCEPT !.verdict = verdict]]
                 ELSE [stack |-> [stack EXCEPT ![Len(stack)] =
                                    [g EXCEPT !.pc = "run", !.marks = <<"start">>, !.invoked = 1]],
                       last |-> [NoLast EXCEPT !.ev = "entered",
                                               !.emitted = <<[inst |-> f.inst, mark |-> "start"]>>]]
        IN  /\ stack' = r.stack
            /\ last' = r.last
    /\ UNCHANGED <<loaderVars, held, runs, files, dirs, index, idleVars>>

\* wrapper, lines 297-299, of a function node: the capability runs
LeafRun ==
    /\ stack # <<>>
    /\ Top.pc = "run"
    /\ IsFunction(Top.inst)
    /\ \E c \in Capability(Top.inst, Top.task) :
        LET f == Top
            r == IF c.out.kind = "return"
                 THEN Finish(Pop(stack), EndMarker(f), "normal", c.out, -1)
                 ELSE Unwind(stack, c.out.exc, f, Len(stack), -1)
        IN  /\ stack' = r.stack
            /\ last' = r.last
            /\ files' = c.st.files
            /\ dirs' = c.st.dirs
            /\ index' = c.st.index
    /\ UNCHANGED <<loaderVars, held, runs, idleVars>>

\* load_and_run, lines 372-396: children, role template, engine
LoadAndRun ==
    /\ stack # <<>>
    /\ Top.pc = "run"
    /\ ~IsFunction(Top.inst)
    /\ LET f == Top
           data == Data(f.inst.key.file_name)
           r == LoadAll(LoaderNow, LoadAndRunChildren(data), f.inst.key.file_name)
           err == IF r.err # "ok" THEN r.err ELSE GetRoleInfo(data.role)
           u == IF err # "ok" THEN Unwind(stack, err, f, Len(stack), -1)
                ELSE [stack |-> [stack EXCEPT ![Len(stack)].pc = "agent",
                                              ![Len(stack)].budget = Budget(data.rank)],
                      last |-> [NoLast EXCEPT !.ev = "prepared"]]
       IN  /\ SetLoader(r.L)
           /\ stack' = u.stack
           /\ last' = u.last
    /\ UNCHANGED <<held, runs, files, dirs, index, idleVars>>

\* agent_executor.run: the engine calls one of its tools
Delegate ==
    /\ stack # <<>>
    /\ Top.pc = "agent"
    /\ WithinBudget(Top)
    /\ Top.iter < MaxIter
    /\ Len(stack) < MaxDepth
    /\ LET file_name == Top.inst.key.file_name
           names == Data(file_name).sub_automata
       IN  \E i \in DOMAIN names : \E task \in Tasks(names[i]) :
             LET key == ChildKey(names[i], file_name)
             IN  stack' = Append([stack EXCEPT ![Len(stack)].iter = @ + 1,
                                               ![Len(stack)].obs = NoCall],
                                 Frame(Inst(key, cache[key]), task))
    /\ last' = [NoLast EXCEPT !.ev = "called"]
    /\ UNCHANGED <<loaderVars, held, runs, files, dirs, index, idleVars>>

\* agent_executor.run returns the final answer
Finalize ==
    /\ stack # <<>>
    /\ Top.pc = "agent"
    /\ LET r == Finish(Pop(stack), EndMarker(Top), "normal", Return(<<"Final Answer">>), -1)
       IN  stack' = r.stack /\ last' = r.last
    /\ UNCHANGED <<loaderVars, held, runs, files, dirs, index, idleVars>>

\* agent_executor.run fails: the engine could not parse its own output
EngineFails ==
    /\ stack # <<>>
    /\ Top.pc = "agent"
    /\ LET r == Unwind(stack, "OutputParserException", Top, Len(stack), -1)
       IN  stack' = r.stack /\ last' = r.last
    /\ UNCHANGED <<loaderVars, held, runs, files, dirs, index, idleVars>>

\* KeyboardInterrupt while the active call is blocked: in the validator's
\* judgment call (outside the try block) or in the wrapped function
Interrupt ==
    /\ stack # <<>>
    /\ Top.pc = "gate" => HasValidator(Top.inst)
    /\ LET inTry == Top.pc # "gate"
           kiTry == IF inTry THEN Len(stack) ELSE Len(stack) - 1
           r == Unwind(IF inTry THEN stack ELSE Pop(stack), KeyboardInterrupt, Top,
                       Len(stack), kiTry)
       IN  stack' = r.stack /\ last' = r.last
    /\ UNCHANGED <<loaderVars, held, runs, files, dirs, index, idleVars>>

Next ==
    \/ TopLoad
    \/ TopRun
    \/ Gate
    \/ LeafRun
    \/ LoadAndRun
    \/ Delegate
    \/ Finalize
    \/ EngineFails
    \/ Interrupt

Spec == InitRun /\ [][Next]_vars


-----------------------------------------------------------------------------
(* Claims about the loader and the run supervisor, checked under Spec.     *)

C3_InterruptAbsorbed ==
    last.kiTry > 0
        => /\ last.ev = "ended"
           /\ last.via = "interrupted"
           /\ last.depth = last.kiTry
           /\ last.out = Return(Sentinel)
           /\ last.marks = <<"start", "end">>
           /\ Len(stack) = last.kiTry - 1
           /\ stack # <<>> => (Top.pc = "agent" /\ Top.obs = Return(Sentinel))

\* a leaf two levels down was interrupted; its parent's run goes on
C3_Witness ==
    /\ last.kiTry = 3
    /\ last.via = "interrupted"
    /\ Len(stack) = 2
    /\ Top.obs = Return(Sentinel)

(* C4: a node invoked as someone's child (built with suppress_errors=True) *)
(* never lets a failure of its wrapped function other than a cancellation  *)
(* escape: its supervised run returns a string and the delegator goes on.  *)
C4_ChildFailureIsContained ==
    (/\ last.ev = "ended"
     /\ last.depth > 1
     /\ last.inst.key.suppress_errors
     /\ last.invoked = 1
     /\ last.via \notin {"normal", "interrupted"})
        => (last.out.kind = "return" /\ stack # <<>>)

Range(seq) == {seq[i] : i \in DOMAIN seq}

\* a composite declaration that names an undeclared child or a role
\* without a template
Misconfigured(file_name) ==
    /\ file_name \in Declared
    /\ Data(file_name).role # "function"
    /\ \/ ~(Range(Data(file_name).sub_automata) \subseteq Declared)
       \/ Data(file_name).role \notin RoleTemplates

(* C5, as stated: resolving a composite node that names an undeclared      *)
(* child, or whose role has no template, fails in load_automaton, before   *)
(* any run of the node is started.                                         *)
C5_FailsAtResolution ==
    /\ (last.ev = "loaded" /\ Misconfigured(last.key.file_name)) => last.out.kind = "raise"
    /\ \A i \in DOMAIN stack : ~Misconfigured(stack[i].inst.key.file_name)

(* C5, amended: resolving such a node succeeds; the configuration error is *)
(* raised by each run of the node that gets past the input gate and is not *)
(* interrupted first: in load_and_run, after the start marker and before   *)
(* the reasoning engine is started, and it leaves the supervised run.      *)
C5_FailsInLoadAndRun ==
    /\ (last.ev = "loaded" /\ Misconfigured(last.key.file_name))
        => (last.out.kind = "return" /\ last.inst \in held)
    /\ \A i \in DOMAIN stack :
        Misconfigured(stack[i].inst.key.file_name) => stack[i].pc \in {"gate", "run"}
    /\ (last.ev = "ended" /\ Misconfigured(last.inst.key.file_name) /\ last.invoked = 1)
        => \/ last.via = "interrupted"
           \/ /\ last.via = "raised"
              /\ last.out = Raise("FileNotFoundError")
              /\ last.marks = <<"start">>

\* a run of the node without a role template failed, with its child cached
C5_Witness ==
    /\ last.ev = "ended"
    /\ last.inst.key.file_name = "norole"
    /\ last.via = "raised"
    /\ ChildKey("save_file", "norole") \in DOMAIN cache

(* C6: child construction is lazy.  A call of load_automaton adds the      *)
(* entry of the node it resolves and no other; an entry for a child is     *)
(* otherwise added only by a step of load_and_run of its delegator, whose  *)
(* run was invoked and got past the input gate.                            *)
C6_ChildrenResolvedLazily ==
    [][\A k \in (DOMAIN cache') \ (DOMAIN cache) :
        \/ last'.ev = "loaded" /\ last'.key = k
        \/ /\ stack # <<>>
           /\ Top.pc = "run"
           /\ Top.invoked = 1
           /\ Top.gate # "rejected"
           /\ ~IsFunction(Top.inst)
           /\ k.file_name \in Range(Data(Top.inst.key.file_name).sub_automata)
           /\ k = ChildKey(k.file_name, Top.inst.key.file_name)
      ]_vars

\* root has run and resolved its child mid, none of whose children exists
C6_Witness ==
    /\ stack = <<>>
    /\ runs > 0
    /\ ChildKey("mid", "root") \in DOMAIN cache
    /\ \A k \in DOMAIN cache : k.delegator # "mid"

\* the lambda of the think capability: the framing, then the thought
ThinkFraming(thought) ==
    <<"I haven't done anything yet, and need to carefully consider what to do next. My previous thought was: ",
      thought>>

(* C11: a supervised run of the reflection capability think, called with   *)
(* any thought and not interrupted, returns the fixed framing string that  *)
(* ends with the thought, fails never, and leaves the cache, the workspace *)
(* store and the description index unchanged.                              *)
C11_ThinkEchoesThought ==
    [][(/\ stack # <<>>
        /\ Top.inst.key.file_name = "think"
        /\ Top.pc = "run"
        /\ last'.kiTry = -1)
            => /\ last'.ev = "ended"
               /\ last'.via = "normal"
               /\ last'.out = Return(ThinkFraming(Top.task))
               /\ Contains(last'.out.text, <<Top.task>>)
               /\ UNCHANGED <<cache, built, files, dirs, index>>
      ]_vars

Finite(b) == b.max_iterations # None /\ b.max_execution_time # None

RankOf(f) == Data(f.inst.key.file_name).rank

\* a function of the rank with constant first difference over ranks 0..3
Affine(r0, r1, r2, r3) == r1 - r0 = r2 - r1 /\ r2 - r1 = r3 - r2

(* C12: the budget handed to the reasoning engine is a function of the     *)
(* node's rank with finite ceilings that scale affinely with the rank and  *)
(* are monotonic: of two engines in progress, the one of the lower-ranked  *)
(* node has ceilings no larger than the other's.                           *)
C12_BudgetMonotonicInRank ==
    \A i, j \in DOMAIN stack :
        (stack[i].pc = "agent" /\ stack[j].pc = "agent")
            => IF Finite(stack[i].budget) /\ Finite(stack[j].budget)
               THEN /\ RankOf(stack[i]) < RankOf(stack[j])
                        => /\ stack[i].budget.max_iterations <= stack[j].budget.max_iterations
                           /\ stack[i].budget.max_execution_time <= stack[j].budget.max_execution_time
                    /\ stack[i].budget = Budget(RankOf(stack[i]))
                    /\ Affine(MaxIterations(0), MaxIterations(1), MaxIterations(2), MaxIterations(3))
                    /\ Affine(MaxExecutionTime(0), MaxExecutionTime(1),
                              MaxExecutionTime(2), MaxExecutionTime(3))
               ELSE FALSE

FunctionRole(file_name) ==
    file_name \in Declared /\ Data(file_name).role = "function"

(* C13: resolving or running a function-role node never attempts child     *)
(* resolution, whatever its sub_automata field holds: no cache entry is    *)
(* ever added with a function-role node as delegator, and no step of a     *)
(* function-role node's run changes the cache.                             *)
C13_FunctionsResolveNoChildren ==
    [][/\ \A k \in (DOMAIN cache') \ (DOMAIN cache) : ~FunctionRole(k.delegator)
       /\ (stack # <<>> /\ FunctionRole(Top.inst.key.file_name))
            => (cache' = cache /\ built' = built)
      ]_vars

\* think, declared with a sub_automata entry, was resolved and has run
C13_Witness ==
    /\ last.ev = "ended"
    /\ last.inst = Inst(ChildKey("think", "root"), 1)
    /\ last.invoked = 1
    /\ Data("think").sub_automata # <<>>
    /\ ChildKey("think", "root") \in DOMAIN cache

\* the children a composite declaration names
Children(file_name) ==
    IF file_name \in Declared /\ Data(file_name).role # "function"
    THEN Range(Data(file_name).sub_automata) ELSE {}

RECURSIVE ReachFrom(_, _)
ReachFrom(S, n) ==
    IF n = 0 THEN S ELSE ReachFrom(S \cup UNION {Children(x) : x \in S}, n - 1)

\* the node delegates to itself, directly or transitively
OnCycle(file_name) == file_name \in ReachFrom(Children(file_name), Cardinality(Declared))

(* C14, as stated: when the declared graph has a cycle, construction       *)
(* recurses without bound: resolving a node on the cycle does not return,  *)
(* and neither does the construction triggered by running it, so its       *)
(* reasoning engine is never started.                                      *)
C14_CycleNeverConstructs ==
    /\ (last.ev = "loaded" /\ OnCycle(last.key.file_name)) => last.out.kind # "return"
    /\ \A i \in DOMAIN stack :
        OnCycle(stack[i].inst.key.file_name) => stack[i].pc # "agent"

(* C14, amended: a cycle in the declared graph causes no recursion in      *)
(* construction.  Resolving a node on the cycle returns, having built that *)
(* node only; each node on the cycle is built once per call key, which is  *)
(* a top-level call or a declared (child, delegator) pair, so the set of   *)
(* instances is bounded by the declarations.                               *)
C14_CycleBuiltOncePerKey ==
    /\ (last.ev = "loaded" /\ OnCycle(last.key.file_name))
        => (last.out.kind = "return" /\ last.inst \in held)
    /\ \A k \in DOMAIN built :
        OnCycle(k.file_name)
            => /\ built[k] = 1
               /\ \/ k \in TopCalls
                  \/ k = ChildKey(k.file_name, k.delegator) /\ k.file_name \in Children(k.delegator)

\* the child instance of loop runs nested inside a run of itself
C14_Witness ==
    /\ Len(stack) = 3
    /\ stack[1].inst.key = Key("loop", "omitted", None, "omitted", FALSE)
    /\ stack[2].inst = Inst(ChildKey("loop", "loop"), 1)
    /\ stack[3].inst = stack[2].inst
    /\ stack[3].pc = "agent"

(* C15: every composite node's run is bounded by its budget: a reasoning   *)
(* engine in progress has an iteration ceiling, has made no more           *)
(* delegations than the ceiling allows, and at the ceiling it delegates no *)
(* further (the run is stopped and reported upward).                       *)
C15_RunBoundedByBudget ==
    \A i \in DOMAIN stack :
        stack[i].pc = "agent"
            => IF stack[i].budget.max_iterations = None THEN FALSE
               ELSE /\ stack[i].iter <= stack[i].budget.max_iterations
                    /\ stack[i].iter = stack[i].budget.max_iterations => ~WithinBudget(stack[i])

\* resolved with no delegator and suppress_errors left false
TopLevel(f) == f.inst.key.delegator = None /\ ~f.inst.key.suppress_errors

\* this step ends a run by a failure that is not a cancellation, while the
\* wrapped function of a top-level invocation is executing
TopLevelFailure ==
    /\ stack # <<>>
    /\ TopLevel(stack[1])
    /\ stack[1].pc # "gate"
    /\ last'.ev = "ended"
    /\ last'.kiTry = -1
    /\ last'.via \notin {"normal", "rejected"}

KeyedByParent(k) ==
    /\ k.dform = "kw"
    /\ k.sform = "kw"
    /\ k.suppress_errors
    /\ k.file_name \in Children(k.delegator)

\* the name of the node whose run called the active one
ParentName == stack[Len(stack) - 1].inst.key.file_name

(* C17: a running composite P resolves each child c under the key          *)
(* (c, delegator = P).  Every cache entry is a top-level entry or such a   *)
(* pair with c declared as a child of P; every nested run is the run of    *)
(* the instance keyed by its caller; a child under one parent is built     *)
(* once and is one instance across all runs, and under two parents it is   *)
(* two instances; a workspace write or listing leaf works on the scope     *)
(* named by its immediate parent.                                          *)
C17_ChildrenKeyedByParent ==
    [][/\ \A k \in DOMAIN cache' : k \in TopCalls \/ KeyedByParent(k)
       /\ \A k \in DOMAIN built' : built'[k] = 1
       /\ \A i \in 2..Len(stack') :
            /\ KeyedByParent(stack'[i].inst.key)
            /\ stack'[i].inst.key.delegator = stack'[i - 1].inst.key.file_name
       /\ \A r1, r2 \in returned' :
            (KeyedByParent(r1.key) /\ KeyedByParent(r2.key) /\ r1.key.file_name = r2.key.file_name)
                => (r1.inst = r2.inst <=> r1.key.delegator = r2.key.delegator)
       /\ \A p \in DOMAIN files' :
            (p \notin DOMAIN files \/ files'[p] # files[p])
                => (Len(stack) >= 2 /\ p[1] = ParentName)
       /\ \A d \in dirs' \ dirs : d # <<>> => (Len(stack) >= 2 /\ d[1] = ParentName)
       /\ (/\ stack # <<>>
           /\ Top.inst.key.file_name = "view_workspace"
           /\ Top.pc = "run"
           /\ last'.out.kind = "return")
            => /\ Len(stack) >= 2
               /\ \A e \in last'.out.entries : e.path[1] = ParentName
      ]_vars

\* save_file is resolved under root and under mid, and mid's has written
C17_Witness ==
    /\ ChildKey("save_file", "root") \in DOMAIN cache
    /\ ChildKey("save_file", "mid") \in DOMAIN cache
    /\ <<"mid", "a">> \in DOMAIN files
    /\ last.ev = "ended"
    /\ last.inst = Inst(ChildKey("save_file", "mid"), 1)

(* C18: a cancellation raised at any suspension point of a node's          *)
(* supervised run, the validator's judgment call before the start marker   *)
(* included, is absorbed by that node's own supervised boundary: the       *)
(* node's run returns the sentinel to its caller and nothing is raised to  *)
(* the caller.                                                             *)
C18_InterruptAbsorbedByOwnBoundary ==
    [][last'.kiTry >= 0
        => /\ last'.ev = "ended"
           /\ last'.via = "interrupted"
           /\ last'.inst = Top.inst
           /\ last'.depth = Len(stack)
           /\ last'.out = Return(Sentinel)
           /\ stack' = Deliver(Pop(stack), Return(Sentinel))
      ]_vars

\* a run in progress has emitted its start marker, once past the gate, and
\* no end marker
OpenRunsUnmatched ==
    \A i \in DOMAIN stack :
        stack[i].marks = IF stack[i].pc = "gate" THEN <<>> ELSE <<"start">>

(* C19, as stated: markers are balanced whatever the outcome: every        *)
(* supervised run that emitted its start marker has emitted exactly one    *)
(* end marker, after the start, when it returns or fails.                  *)
C19_MarkersBalanced ==
    /\ OpenRunsUnmatched
    /\ (last.ev = "ended" /\ last.invoked = 1) => last.marks = <<"start", "end">>
    /\ (last.ev = "ended" /\ last.invoked = 0) => last.marks = <<>>

(* C19, amended: markers are balanced and well nested for the runs whose   *)
(* wrapped call returns normally or is cancelled while it executes: such a *)
(* run emits exactly one end marker, after its start marker and after all  *)
(* that its wrapped function did.  A run whose wrapped call fails with any *)
(* other exception emits no end marker, and neither does any ancestor the  *)
(* exception passes through: their start markers stay unmatched.  A run    *)
(* that emitted no start marker emits no end marker.                       *)
C19_MarkersBalancedUnlessFailed ==
    /\ OpenRunsUnmatched
    /\ (last.ev = "ended" /\ last.via \in {"normal", "interrupted"})
        => /\ last.marks = <<"start", "end">>
           /\ last.emitted = <<[inst |-> last.inst, mark |-> "end"]>>
    /\ (last.ev = "ended" /\ last.via = "raised")
        => /\ last.marks = IF last.invoked = 1 THEN <<"start">> ELSE <<>>
           /\ last.emitted = <<>>
    /\ (last.ev = "ended" /\ last.via = "rejected")
        => (last.marks = <<>> /\ last.emitted = <<>>)

\* a leaf at depth 3 failed: the three start markers stay unmatched
C19_Witness ==
    /\ last.ev = "ended"
    /\ last.via = "raised"
    /\ last.depth = 3
    /\ last.marks = <<"start">>
    /\ last.emitted = <<>>
    /\ stack = <<>>

-----------------------------------------------------------------------------
(* The specifications of the workspace capabilities and of validate_input. *)

InitFS ==
    /\ vIn = ValIdle
    /\ vOut = [kind |-> "none", exc |-> "", valid |-> FALSE, text |-> <<>>]
    /\ files = <<>>
    /\ dirs \in {{}, {<<>>}}
    /\ index = <<>>
    /\ fsLast = FsIdle
    /\ cache = <<>>
    /\ built = <<>>
    /\ returned = {}
    /\ held = {}
    /\ stack = <<>>
    /\ runs = 0
    /\ last = NoLast

FsSave ==
    \E input \in SaveInputs, ws \in Scopes \cup {None}, self \in SelfNames :
        LET r == SaveFile(input, self, ws)
        IN  /\ files' = r.st.files
            /\ dirs' = r.st.dirs
            /\ index' = r.st.index
            /\ fsLast' = FsCall("save", ws, input, r.out)
            /\ UNCHANGED <<valVars, runVars>>

FsLoad ==
    \E input \in LoadInputs, self \in SelfNames :
        /\ fsLast' = FsCall("load", None, input, LoadFile(input, self))
        /\ UNCHANGED <<files, dirs, index>>
        /\ UNCHANGED <<valVars, runVars>>

FsView ==
    \E ws \in Scopes \cup {None}, self \in SelfNames :
        \E out \in ViewWorkspaceFiles(self, ws) :
            /\ fsLast' = FsCall("view", ws, Malformed("invalid", {}), out)
            /\ UNCHANGED <<files, dirs, index>>
            /\ UNCHANGED <<valVars, runVars>>

FsNext == FsSave \/ FsLoad \/ FsView

SpecFS == InitFS /\ [][FsNext]_vars

InitValidate ==
    /\ vIn \in UNION {Verdicts(n) : n \in FullNames}
    /\ vOut = VNone
    /\ files = <<>>
    /\ dirs = {}
    /\ index = <<>>
    /\ fsLast = FsIdle
    /\ cache = <<>>
    /\ built = <<>>
    /\ returned = {}
    /\ held = {}
    /\ stack = <<>>
    /\ runs = 0
    /\ last = NoLast

Validate ==
    /\ vOut.kind = "none"
    /\ vOut' = ValidateInput(vIn, vIn.full_name)
    /\ UNCHANGED <<vIn, files, dirs, index, fsLast, runVars>>

SpecValidate == InitValidate /\ [][Validate]_vars

-----------------------------------------------------------------------------
(* Claims about validate_input and the workspace capabilities.             *)

LacksField(output) ==
    /\ output.enc \in {"json", "literal"}
    /\ output.shape = "dict"
    /\ ~({"success", "message"} \subseteq output.keys)

(* C7: for every verdict of the input inspector that lacks the success     *)
(* field or lacks the message field, validate_input raises ValueError; it  *)
(* returns neither acceptance nor a rejection tuple.                       *)
C7_MissingFieldRaises ==
    (vOut.kind # "none" /\ LacksField(vIn))
        => (vOut.kind = "raise" /\ vOut.exc = "ValueError")

(* C8: every file a successful save_file wrote under scope D, with         *)
(* file_name f (nested or not) and description d, is listed by a later     *)
(* view_workspace_files on D: the listing it returns has an entry pairing  *)
(* the file with the description of the latest write to it.                *)
C8_SavedFileIsListed ==
    \A p \in DOMAIN files :
        (fsLast.op = "view" /\ fsLast.ws = p[1] /\ fsLast.out.kind = "return")
            => [path |-> RelStr(p), desc |-> index[PathStr(p)]] \in fsLast.out.entries

BadSaveInput(input) ==
    input.syntax # "object" \/ ~({"file_name", "content"} \subseteq input.keys)

BadLoadInput(input) ==
    input.syntax # "object" \/ "file_name" \notin input.keys

(* C9: a save_file or load_file call whose input is unparseable, parses to *)
(* a value that is not an object, or lacks a required key returns the      *)
(* corrective string, raises nothing, and leaves the workspace store and   *)
(* the description index unchanged.                                        *)
C9_BadPayloadIsCorrected ==
    [][/\ (fsLast'.op = "save" /\ BadSaveInput(fsLast'.input))
            => (fsLast'.out = Return(SaveCorrective) /\ UNCHANGED <<files, dirs, index>>)
       /\ (fsLast'.op = "load" /\ BadLoadInput(fsLast'.input))
            => (fsLast'.out = Return(LoadCorrective) /\ UNCHANGED <<files, dirs, index>>)
      ]_fsVars

(* C10: load_file with a well-formed payload naming a path that does not   *)
(* exist in the store returns the corrective string that points to viewing *)
(* the workspace, raises nothing and leaves the store unchanged, in every  *)
(* reachable state of the store.                                           *)
C10_MissingPathIsCorrected ==
    [][(/\ fsLast'.op = "load"
        /\ ~BadLoadInput(fsLast'.input)
        /\ ~Exists(fsLast'.input.file_name))
            => /\ \E self \in SelfNames :
                    fsLast'.out = Return(NotFoundText(self, fsLast'.input.file_name))
               /\ Contains(fsLast'.out.text, <<BQ, " not found. Please view your workspace to see which files are available, and use the full path given.">>)
               /\ UNCHANGED <<files, dirs, index>>
      ]_fsVars

\* the text of a content: the string itself, the digits of a number
TextOf(content) == <<content.v>>

(* C20: after a successful save_file of content X with file_name f under   *)
(* scope D, the file at the reported path D/f holds the text of X, and a   *)
(* load_file of that path returns exactly the text of the latest write to  *)
(* it; a load_file leaves the store and the description index unchanged.   *)
C20_WriteReadRoundTrip ==
    [][/\ (fsLast'.op = "save" /\ fsLast'.out.kind = "return" /\ ~BadSaveInput(fsLast'.input))
            => LET path == <<fsLast'.ws>> \o fsLast'.input.file_name
               IN  /\ Contains(fsLast'.out.text, RelStr(path))
                   /\ path \in DOMAIN files'
                   /\ files'[path] = TextOf(fsLast'.input.content)
       /\ (/\ fsLast'.op = "load"
           /\ ~BadLoadInput(fsLast'.input)
           /\ fsLast'.input.file_name \in DOMAIN files)
            => fsLast'.out = Return(files[fsLast'.input.file_name])
       /\ fsLast'.op = "load" => UNCHANGED <<files, dirs, index>>
      ]_fsVars

====
